---- MODULE Spec2Model ----
(***************************************************************************)
(* A model of the Qt cookbook demos: the editable people table             *)
(* (app_table_people.py), the word pairs table (app_table_word_pairs.py)   *)
(* the QML backend (app_qml/app_qml_simple.py) and the child window of the *)
(* signals demo (app_simple_pyside2.py).                                   *)
(*                                                                         *)
(* Python strings are modelled as sequences of one-character strings, so   *)
(* that strip, lower, startswith, int, str, hex and string comparison are  *)
(* computed character by character, as Python computes them.               *)
(***************************************************************************)
EXTENDS Integers, Sequences, FiniteSets, TLC

\* ------------------------------------------------------------------ bounds

\* How many records of the people list the model holds (the first NumPeople
\* of the list that CustomWidget.__init__ builds).
NumPeople == 2

\* How many calls of setData one behaviour makes.
MaxEdits == 1

\* How many presses of 'Show Other Words' one behaviour makes.
MaxPresses == 2

\* The largest header section a view asks about.
MaxSection == 11

\* The longest text typed into a cell editor.
MaxEditorLen == 3

\* The longest file pronk is given, in bytes.
MaxFileLen == 34

\* How many letters of the alphabet handle_incoming_mood draws its random
\* letters from (the first MaxLetters of 'A'..'Z').
MaxLetters == 3

\* ------------------------------------------------------- Python strings

DigitChars == <<"0", "1", "2", "3", "4", "5", "6", "7", "8", "9">>

UpperChars ==
    << "A", "B", "C", "D", "E", "F", "G", "H", "I", "J", "K", "L", "M",
       "N", "O", "P", "Q", "R", "S", "T", "U", "V", "W", "X", "Y", "Z" >>

LowerChars ==
    << "a", "b", "c", "d", "e", "f", "g", "h", "i", "j", "k", "l", "m",
       "n", "o", "p", "q", "r", "s", "t", "u", "v", "w", "x", "y", "z" >>

\* The elements of a sequence.
Range(seq) == { seq[i] : i \in 1..Len(seq) }

\* The characters the model's strings are made of: space, digits, ASCII letters
\* and the underscore.
Chars == {" ", "_", "(", ")"} \cup Range(DigitChars) \cup Range(UpperChars) \cup Range(LowerChars)

\* Position of the character c in the sequence chars.
IndexIn(chars, c) == CHOOSE i \in 1..Len(chars) : chars[i] = c

IsDigit(c) == c \in Range(DigitChars)

IsUpper(c) == c \in Range(UpperChars)

\* The value of each digit character.
DigitValues == [c \in Range(DigitChars) |-> IndexIn(DigitChars, c) - 1]

DigitVal(c) == DigitValues[c]

\* The code point of each character.
CodePoints ==
    [c \in Chars |->
        IF c = " " THEN 32
        ELSE IF c = "(" THEN 40
        ELSE IF c = ")" THEN 41
        ELSE IF IsDigit(c) THEN 47 + IndexIn(DigitChars, c)
        ELSE IF IsUpper(c) THEN 64 + IndexIn(UpperChars, c)
        ELSE IF c = "_" THEN 95
        ELSE 96 + IndexIn(LowerChars, c)]

\* ord(c)
Ord(c) == CodePoints[c]

\* The lower case of each character.
LowerCase ==
    [c \in Chars |-> IF IsUpper(c) THEN LowerChars[IndexIn(UpperChars, c)] ELSE c]

\* str.lower() on one character.
LowerChar(c) == LowerCase[c]

\* str.lower()
Lower(s) == [i \in 1..Len(s) |-> LowerChar(s[i])]

IsSpace(c) == c = " "

RECURSIVE LStrip(_)
LStrip(s) == IF s # <<>> /\ IsSpace(Head(s)) THEN LStrip(Tail(s)) ELSE s

RECURSIVE RStrip(_)
RStrip(s) ==
    IF s # <<>> /\ IsSpace(s[Len(s)]) THEN RStrip(SubSeq(s, 1, Len(s) - 1)) ELSE s

\* str.strip()
Strip(s) == RStrip(LStrip(s))

\* str.startswith(prefix)
StartsWith(s, prefix) ==
    /\ Len(prefix) <= Len(s)
    /\ SubSeq(s, 1, Len(prefix)) = prefix

\* left < right on two strings: Python compares code points from the left, and a
\* proper prefix is the smaller.
RECURSIVE StrLess(_, _)
StrLess(left, right) ==
    IF right = <<>> THEN FALSE
    ELSE IF left = <<>> THEN TRUE
    ELSE IF Ord(Head(left)) # Ord(Head(right)) THEN Ord(Head(left)) < Ord(Head(right))
    ELSE StrLess(Tail(left), Tail(right))

\* str(n) for an integer n >= 0.
RECURSIVE IntToStr(_)
IntToStr(n) ==
    IF n < 10 THEN <<DigitChars[n + 1]>>
    ELSE Append(IntToStr(n \div 10), DigitChars[(n % 10) + 1])

\* re.match(r'[0-9]+', s): the pattern is anchored at the start only, so it
\* matches as soon as the first character is a digit.
ReMatchDigits(s) == s # <<>> /\ IsDigit(Head(s))

\* Whether int(s) parses s, for a stripped s that starts with a digit: decimal
\* digits, with single underscores allowed between digits.
IntParses(s) ==
    /\ s # <<>>
    /\ \A i \in 1..Len(s) : IsDigit(s[i]) \/ s[i] = "_"
    /\ IsDigit(s[1]) /\ IsDigit(s[Len(s)])
    /\ \A i \in 1..(Len(s) - 1) : ~(s[i] = "_" /\ s[i + 1] = "_")

\* int(s) where IntParses(s): underscores are skipped.
RECURSIVE IntOf(_)
IntOf(s) ==
    IF s = <<>> THEN 0
    ELSE IF s[Len(s)] = "_" THEN IntOf(SubSeq(s, 1, Len(s) - 1))
    ELSE IntOf(SubSeq(s, 1, Len(s) - 1)) * 10 + DigitVal(s[Len(s)])

\* ------------------------------------------------------- Python values

\* A Python value: a str (a sequence of characters), an int, a bool or None.
PyStr(s) == [t |-> "str", v |-> s]

PyInt(n) == [t |-> "int", v |-> n]

PyBool(b) == [t |-> "bool", v |-> b]

PyNone == [t |-> "None", v |-> 0]

\* str(x) for a str or an int.
Str(x) == IF x.t = "int" THEN IntToStr(x.v) ELSE x.v

\* ------------------------------------------------------- the people table

\* Person.__init__
Person(first, middle, last, age, height_mm) ==
    [first |-> PyStr(first), middle |-> PyStr(middle), last |-> PyStr(last),
     age |-> PyInt(age), height_mm |-> PyInt(height_mm)]

\* The list of people that CustomWidget.__init__ builds.
AllPeople ==
    <<
       Person(<<"A", "l", "i", "c", "e">>, <<"L", "e", "e">>, <<"S", "m", "i", "t", "h">>, 33, 181),
       Person(<<"A", "a", "r", "o", "n">>, <<"J", "a", "k", "e">>, <<"B", "e", "l", "l">>, 29, 177),
       Person(<<"B", "o", "b">>, <<"G", "r", "e", "g">>, <<"C", "a", "n", "d", "l", "e", "r">>, 24, 193),
       Person(<<"B", "e", "n">>, <<"J", "o", "s", "e", "p", "h">>, <<"W", "i", "c", "k", "e", "t">>, 34, 174),
       Person(<<"W", "i", "l", "l", "i", "a", "m">>, <<"T", "r", "o", "y">>, <<"A", "c", "k", "f", "o", "r", "d">>, 49, 207),
       Person(<<"W", "a", "l", "t", "e", "r">>, <<"S", "a", "m">>, <<"B", "e", "c", "k", "e", "t", "t">>, 57, 202),
       Person(<<"M", "e", "g", "a", "n">>, <<"R", "o", "s", "e">>, <<"R", "u", "s", "t">>, 11, 180),
       Person(<<"M", "a", "r", "k">>, <<"C", "h", "a", "r", "l", "e", "s">>, <<"F", "o", "r", "d">>, 16, 172),
       Person(<<"J", "e", "f", "f">>, <<"G", "l", "e", "n", "n">>, <<"T", "e", "e", "s", "d", "a", "l", "e">>, 71, 179),
       Person(<<"J", "e", "s", "s", "i", "c", "a">>, <<"L", "a", "l", "a">>, <<"E", "a", "r", "l">>, 45, 212),
       Person(<<"N", "a", "n", "c", "y">>, <<"E", "l", "i", "z", "a", "b", "e", "t", "h">>, <<"L", "e", "m", "o", "n">>, 40, 211)
    >>

\* PeopleModel's column numbers.
FIRST_NAME == 0

MIDDLE_NAME == 1

LAST_NAME == 2

AGE == 3

HEIGHT_MM == 4

\* PeopleModel.attrib_key: column number -> attribute name and display name
\* (a sequence, so column c is at c + 1).
attrib_key ==
    << [attrib |-> "first", display |-> <<"F", "i", "r", "s", "t", " ", "N", "a", "m", "e">>],
       [attrib |-> "middle", display |-> <<"M", "i", "d", "d", "l", "e", " ", "N", "a", "m", "e">>],
       [attrib |-> "last", display |-> <<"L", "a", "s", "t", " ", "N", "a", "m", "e">>],
       [attrib |-> "age", display |-> <<"A", "g", "e">>],
       [attrib |-> "height_mm", display |-> <<"H", "e", "i", "g", "h", "t", " ", "(", "m", "m", ")">>] >>

\* The item data roles setData is called with.
Roles == {"DisplayRole", "EditRole"}

\* The item data roles a view asks data() and headerData() about.
QueryRoles == {"DisplayRole", "DecorationRole", "ToolTipRole", "SizeHintRole"}

\* QModelIndex: the index of the cell (row, column) of a model, or the invalid
\* index, whose row and column are -1.
Index(row, col) == [valid |-> TRUE, row |-> row, col |-> col]

InvalidIndex == [valid |-> FALSE, row |-> -1, col |-> -1]

\* ------------------------------------------------------- the word pairs

\* The dict CustomWidget.__init__ stores as word_pairs, in insertion order.
InitWordPairs ==
    << <<"fruit", "banana">>, <<"vegetable", "spinach">>, <<"animal", "dog">>,
       <<"mineral", "quartz">>, <<"nature", "neat">>, <<"plant", "tree">>,
       <<"yolk", "yellow">>, <<"pillows", "soft">> >>

\* The dict CustomWidget.__init__ stores as alternate_word_pairs.
InitAlternateWordPairs ==
    << <<"sun", "bright">>, <<"water", "wet">>, <<"rocks", "hard">>,
       <<"grass", "soft">>, <<"planes", "flying">>, <<"toast", "golden">> >>

\* ------------------------------------------------------------- inputs

\* The texts a cell editor hands to setData.
EditValues ==
    { <<>>,
      <<"9">>,
      <<"1", "2", "a", "b", "c">>,
      <<" ", "0", "7", " ">>,
      <<"1", " ", "2">>,
      <<"1", "_", "2">>,
      <<"a", "L">> }

\* More texts for a cell, for the sort order: numbers of several lengths, and
\* letters of both cases.
SortValues ==
    { <<"1", "0">>, <<"1", "0", "0">>, <<"3", "3">>, <<"b">>, <<"B">>,
      <<"A", "l">>, <<"A", "l", "i", "c", "e", "s">> }

\* The texts the user types into the filter field.
FilterTexts == { <<>>, <<"A">>, <<"a", "L">> }

\* -------------------------------------------------------------- state

VARIABLES
    people,               \* CustomWidget.people, the list PeopleModel.model_data refers to
    filter_field,         \* the text of CustomWidget.people_filter_field
    filter_string,        \* PeopleSortFilterModel.filter_string
    word_pairs,           \* the contents of the dict CustomWidget.word_pairs
    alternate_word_pairs, \* the contents of the dict CustomWidget.alternate_word_pairs
    current_word_pairs,   \* which dict CustomWidget.current_word_pairs refers to
    word_model_data,      \* which dict WordPairModel.model_data refers to
    edits,                \* how many times setData has been called
    presses,              \* how many times 'Show Other Words' has been pressed
    call,                 \* the last handler that ran, with its arguments
    ret,                  \* what it returned, and the exception it raised (if any)
    emitted,              \* what it did to the model and the signals it emitted, in order
    editor,               \* the PeopleFieldEditor of the cell being edited, if any
    child_text,           \* the text of ChildWidget.child_text
    child_visible,        \* whether the child window is shown
    mood_sender           \* the button of the last mood press, "none" before the first

tableVars ==
    << people, filter_field, filter_string, word_pairs, alternate_word_pairs,
       current_word_pairs, word_model_data, edits, presses >>

moodVars == << child_text, child_visible, mood_sender >>

vars == << tableVars, call, ret, emitted, editor, moodVars >>

\* A handler's normal return of the value v.
Returned(v) == [value |-> v, raised |-> "none"]

\* A handler left by the exception exc.
Raised(exc) == [value |-> PyNone, raised |-> exc]

\* ---------------------------------------------------------- PeopleModel

\* The valid indexes of a model of rows rows and cols columns.
ValidIndexes(rows, cols) == { Index(r, c) : r \in 0..(rows - 1), c \in 0..(cols - 1) }

\* PeopleModel.rowCount
rowCount == Len(people)

\* PeopleModel.columnCount
columnCount == Len(attrib_key)

\* data handing out the attribute itself, a number not turned into text.
data_unconverted(index, role) ==
    IF index.valid /\ role = "DisplayRole"
    THEN people[index.row + 1][attrib_key[index.col + 1].attrib]
    ELSE PyNone

\* PeopleModel.data
data(index, role) ==
    IF index.valid /\ role = "DisplayRole"
    THEN LET person == people[index.row + 1]
             attrib_name == attrib_key[index.col + 1].attrib
         IN  PyStr(Str(person[attrib_name]))
    ELSE PyNone

\* headerData numbering the rows from 1.
headerData_from_one(section, orientation, role) ==
    IF role = "DisplayRole"
    THEN IF orientation = "Vertical"
         THEN Returned(PyStr(IntToStr(section + 1)))
         ELSE IF section + 1 \in DOMAIN attrib_key
              THEN Returned(PyStr(attrib_key[section + 1].display))
              ELSE Raised("KeyError")
    ELSE Returned(PyNone)

\* PeopleModel.headerData: attrib_key[section] raises KeyError for a section
\* that is no key of attrib_key; falling off the end returns None.
headerData(section, orientation, role) ==
    IF role = "DisplayRole"
    THEN IF orientation = "Vertical"
         THEN Returned(PyStr(IntToStr(section)))
         ELSE IF section + 1 \in DOMAIN attrib_key
              THEN Returned(PyStr(attrib_key[section + 1].display))
              ELSE Raised("KeyError")
    ELSE Returned(PyNone)

\* The view queries PeopleModel.headerData.
PeopleHeaderData(section, orientation, role) ==
    /\ call' = [op |-> "PeopleModel.headerData", section |-> section,
                orientation |-> orientation, role |-> role]
    /\ ret' = headerData(section, orientation, role)
    /\ emitted' = <<>>
    /\ UNCHANGED << tableVars, editor, moodVars >>

\* setattr(person, attrib_name, v) on the record of row row.
SetAttr(row, attrib_name, v) ==
    [sig |-> "setattr", row |-> row, attrib |-> attrib_name, value |-> v]

\* self.dataChanged.emit(index, index, [Qt.DisplayRole])
DataChanged(index) ==
    [sig |-> "dataChanged", topLeft |-> index, bottomRight |-> index,
     roles |-> <<"DisplayRole">>]

\* setData without the conversion to int: a number is stored as its text.
setData_as_text(pl, index, value, role) ==
    IF index.valid /\ role = "DisplayRole"
           /\ (index.col \in {AGE, HEIGHT_MM} => ReMatchDigits(Strip(value)))
    THEN LET v == PyStr(Strip(value))
         IN  [people |-> [pl EXCEPT ![index.row + 1][attrib_key[index.col + 1].attrib] = v],
              ret |-> Returned(PyBool(TRUE)),
              emitted |-> << SetAttr(index.row, attrib_key[index.col + 1].attrib, v),
                             DataChanged(index) >>]
    ELSE [people |-> pl, ret |-> Returned(PyBool(FALSE)), emitted |-> <<>>]

\* setData without the test of the role.
setData_any_role(pl, index, value, role) ==
    IF index.valid /\ (index.col \in {AGE, HEIGHT_MM} => (ReMatchDigits(Strip(value)) /\ IntParses(Strip(value))))
    THEN LET attrib_name == attrib_key[index.col + 1].attrib
             v == IF index.col \in {AGE, HEIGHT_MM}
                  THEN PyInt(IntOf(Strip(value)))
                  ELSE PyStr(Strip(value))
         IN  [people |-> [pl EXCEPT ![index.row + 1][attrib_name] = v],
              ret |-> Returned(PyBool(TRUE)),
              emitted |-> << SetAttr(index.row, attrib_name, v), DataChanged(index) >>]
    ELSE [people |-> pl, ret |-> Returned(PyBool(FALSE)), emitted |-> <<>>]

\* setData emitting dataChanged before the record is updated.
setData_emits_first(pl, index, value, role) ==
    IF index.valid /\ role = "DisplayRole"
           /\ (index.col \in {AGE, HEIGHT_MM} => (ReMatchDigits(Strip(value)) /\ IntParses(Strip(value))))
    THEN LET attrib_name == attrib_key[index.col + 1].attrib
             v == IF index.col \in {AGE, HEIGHT_MM}
                  THEN PyInt(IntOf(Strip(value)))
                  ELSE PyStr(Strip(value))
         IN  [people |-> [pl EXCEPT ![index.row + 1][attrib_name] = v],
              ret |-> Returned(PyBool(TRUE)),
              emitted |-> << DataChanged(index), SetAttr(index.row, attrib_name, v) >>]
    ELSE [people |-> pl, ret |-> Returned(PyBool(FALSE)), emitted |-> <<>>]

\* setData with the row forgotten: the edit lands on the first record.
setData_first_row(pl, index, value, role) ==
    IF index.valid /\ role = "DisplayRole" /\ index.col \notin {AGE, HEIGHT_MM}
    THEN [people |-> [pl EXCEPT ![1][attrib_key[index.col + 1].attrib] =
                                       PyStr(Strip(value))],
          ret |-> Returned(PyBool(TRUE)),
          emitted |-> << [sig |-> "dataChanged", topLeft |-> index,
                          bottomRight |-> index, roles |-> <<"DisplayRole">>] >>]
    ELSE [people |-> pl, ret |-> Returned(PyBool(FALSE)), emitted |-> <<>>]

\* PeopleModel.setData on the list pl: the list afterwards, the result, and the
\* signals emitted.
setData(pl, index, value, role) ==
    LET row == index.row
        col == index.col
        unedited == [people |-> pl, ret |-> Returned(PyBool(FALSE)), emitted |-> <<>>]
        edited(v) ==
            [people |-> [pl EXCEPT ![row + 1][attrib_key[col + 1].attrib] = v],
             ret |-> Returned(PyBool(TRUE)),
             emitted |-> << SetAttr(row, attrib_key[col + 1].attrib, v),
                            DataChanged(index) >>]
    IN  IF index.valid /\ role = "DisplayRole"
        THEN LET stripped == Strip(value)
             IN  IF col \in {AGE, HEIGHT_MM}
                 THEN IF ReMatchDigits(stripped)
                      THEN IF IntParses(stripped)
                           THEN edited(PyInt(IntOf(stripped)))
                           ELSE [people |-> pl, ret |-> Raised("ValueError"),
                                 emitted |-> <<>>]
                      ELSE unedited
                 ELSE edited(PyStr(stripped))
        ELSE unedited

\* One call of PeopleModel.setData.
SetData(index, value, role) ==
    /\ edits < MaxEdits
    /\ LET out == setData(people, index, value, role)
       IN  /\ people' = out.people
           /\ ret' = out.ret
           /\ emitted' = out.emitted
    /\ edits' = edits + 1
    /\ call' = [op |-> "setData", index |-> index, value |-> value, role |-> role]
    /\ UNCHANGED << moodVars, editor, filter_field, filter_string, word_pairs, alternate_word_pairs,
                    current_word_pairs, word_model_data, presses >>

\* PeopleDelegate.setModelData: the editor's text goes to setData with the
\* display role.
setModelData(editor_text, index) == SetData(index, editor_text, "DisplayRole")

\* ------------------------------------------------- PeopleFieldEditor

\* A key press: the key, and the text it types (empty for a key that types
\* nothing).
Key(key, text) == [key |-> key, text |-> text]

\* The keys the user presses.
KeyPresses ==
    { Key("Key_0", <<"0">>), Key("Key_9", <<"9">>),
      Key("Key_A", <<"a">>), Key("Key_Space", <<" ">>),
      Key("Key_Return", <<>>), Key("Key_Enter", <<>>), Key("Key_Tab", <<>>),
      Key("Key_Delete", <<>>), Key("Key_Backspace", <<>>),
      Key("Key_Left", <<>>), Key("Key_Escape", <<>>) }

\* No cell is being edited.
NoEditor == [open |-> FALSE]

\* The keys PeopleFieldEditor.keyPressEvent accepts for a numeric column.
accepted_keys ==
    { "Key_0", "Key_1", "Key_2", "Key_3", "Key_4", "Key_5", "Key_6", "Key_7", "Key_8",
      "Key_9", "Key_Return", "Key_Enter", "Key_Tab", "Key_Delete", "Key_Backspace" }

\* QLineEdit.keyPressEvent, which PeopleFieldEditor.keyPressEvent forwards to:
\* a key that types text replaces the selection or inserts at the cursor,
\* Backspace and Delete remove the selection or the character before or at the
\* cursor, Left moves the cursor, and the other keys leave the text alone.
QLineEditKeyPress(ed, key) ==
    LET text == ed.text
        cur == ed.cursor
        before == SubSeq(text, 1, cur)
        after == SubSeq(text, cur + 1, Len(text))
    IN  IF key.text # <<>>
        THEN IF ed.selected
             THEN [ed EXCEPT !.text = key.text, !.cursor = 1, !.selected = FALSE]
             ELSE IF Len(text) < MaxEditorLen
                  THEN [ed EXCEPT !.text = before \o key.text \o after,
                                  !.cursor = cur + 1]
                  ELSE ed
        ELSE IF key.key \in {"Key_Backspace", "Key_Delete"} /\ ed.selected
        THEN [ed EXCEPT !.text = <<>>, !.cursor = 0, !.selected = FALSE]
        ELSE IF key.key = "Key_Backspace" /\ cur > 0
        THEN [ed EXCEPT !.text = SubSeq(text, 1, cur - 1) \o after, !.cursor = cur - 1]
        ELSE IF key.key = "Key_Delete" /\ cur < Len(text)
        THEN [ed EXCEPT !.text = before \o SubSeq(text, cur + 2, Len(text))]
        ELSE IF key.key = "Key_Left"
        THEN [ed EXCEPT !.cursor = IF ed.selected \/ cur = 0 THEN 0 ELSE cur - 1,
                        !.selected = FALSE]
        ELSE ed

\* PeopleDelegate.createEditor and PeopleDelegate.setEditorData, which the view
\* calls one after the other when a cell's edit begins; the view then selects
\* the editor's text.
createEditor(index) ==
    /\ ~editor.open
    /\ LET text == data(index, "DisplayRole").v
       IN  editor' = [open |-> TRUE, column |-> index.col, index |-> index,
                      text |-> text, cursor |-> Len(text), selected |-> TRUE]
    /\ call' = [op |-> "createEditor", index |-> index]
    /\ ret' = Returned(PyNone)
    /\ emitted' = <<>>
    /\ UNCHANGED << tableVars, moodVars >>

\* keyPressEvent without the restriction to accepted keys.
keyPressEvent_unrestricted(key) ==
    /\ editor.open
    /\ editor' = QLineEditKeyPress(editor, key)
    /\ emitted' = << [sig |-> "super.keyPressEvent", key |-> key.key] >>
    /\ call' = [op |-> "keyPressEvent", key |-> key]
    /\ ret' = Returned(PyNone)
    /\ UNCHANGED << tableVars, moodVars >>

\* PeopleFieldEditor.keyPressEvent
keyPressEvent(key) ==
    /\ editor.open
    /\ IF editor.column \in {AGE, HEIGHT_MM}
       THEN IF key.key \in accepted_keys
            THEN /\ editor' = QLineEditKeyPress(editor, key)
                 /\ emitted' = << [sig |-> "super.keyPressEvent", key |-> key.key] >>
            ELSE /\ editor' = editor
                 /\ emitted' = <<>>
       ELSE /\ editor' = QLineEditKeyPress(editor, key)
            /\ emitted' = << [sig |-> "super.keyPressEvent", key |-> key.key] >>
    /\ call' = [op |-> "keyPressEvent", key |-> key]
    /\ ret' = Returned(PyNone)
    /\ UNCHANGED << tableVars, moodVars >>

\* The view closes the editor.
closeEditor ==
    /\ editor.open
    /\ editor' = NoEditor
    /\ call' = [op |-> "closeEditor"]
    /\ ret' = Returned(PyNone)
    /\ emitted' = <<>>
    /\ UNCHANGED << tableVars, moodVars >>

\* ------------------------------------------------ PeopleSortFilterModel

\* PeopleSortFilterModel.filterAcceptsRow
filterAcceptsRow(source_row) ==
    IF filter_string # <<>>
    THEN LET first_name == data(Index(source_row, FIRST_NAME), "DisplayRole")
         IN  StartsWith(Lower(first_name.v), filter_string)
    ELSE TRUE

\* PeopleSortFilterModel.filterAcceptsColumn
filterAcceptsColumn(source_column) == TRUE

\* lessThan comparing the attributes themselves, so numbers by value.
lessThan_by_value(source_left, source_right) ==
    LET left == people[source_left.row + 1][attrib_key[source_left.col + 1].attrib]
        right == people[source_right.row + 1][attrib_key[source_right.col + 1].attrib]
    IN  IF left.t = "int" /\ right.t = "int"
        THEN left.v < right.v
        ELSE StrLess(Str(left), Str(right))

\* PeopleSortFilterModel.lessThan
lessThan(source_left, source_right) ==
    LET left == data(source_left, "DisplayRole")
        right == data(source_right, "DisplayRole")
    IN  StrLess(left.v, right.v)

\* PeopleSortFilterModel.set_filter_string: what it does, in order.
set_filter_string(user_filter) ==
    << [sig |-> "filter_string", value |-> user_filter],
       [sig |-> "beginResetModel"],
       [sig |-> "endResetModel"] >>

\* The user types text into the filter field.
TypeFilterText(text) ==
    /\ filter_field # text
    /\ filter_field' = text
    /\ call' = [op |-> "people_filter_field.setText", text |-> text]
    /\ ret' = Returned(PyNone)
    /\ emitted' = <<>>
    /\ UNCHANGED << moodVars, editor, people, filter_string, word_pairs, alternate_word_pairs,
                    current_word_pairs, word_model_data, edits, presses >>

\* handle_apply_people_filter without the lower() of the field's text.
handle_apply_people_filter_as_typed ==
    /\ filter_string' = filter_field
    /\ emitted' = set_filter_string(filter_field)
    /\ call' = [op |-> "handle_apply_people_filter", text |-> filter_field]
    /\ ret' = Returned(PyNone)
    /\ UNCHANGED << moodVars, editor, people, filter_field, word_pairs, alternate_word_pairs,
                    current_word_pairs, word_model_data, edits, presses >>

\* CustomWidget.handle_apply_people_filter ('Filter People')
handle_apply_people_filter ==
    /\ filter_string' = Lower(filter_field)
    /\ emitted' = set_filter_string(Lower(filter_field))
    /\ call' = [op |-> "handle_apply_people_filter", text |-> filter_field]
    /\ ret' = Returned(PyNone)
    /\ UNCHANGED << moodVars, editor, people, filter_field, word_pairs, alternate_word_pairs,
                    current_word_pairs, word_model_data, edits, presses >>

\* handle_clear_people_filter emptying the field and leaving the proxy's filter
\* string as it is.
handle_clear_people_filter_field_only ==
    /\ filter_field' = <<>>
    /\ emitted' = <<>>
    /\ call' = [op |-> "handle_clear_people_filter"]
    /\ ret' = Returned(PyNone)
    /\ UNCHANGED << moodVars, editor, people, filter_string, word_pairs, alternate_word_pairs,
                    current_word_pairs, word_model_data, edits, presses >>

\* CustomWidget.handle_clear_people_filter ('Clear Filter')
handle_clear_people_filter ==
    /\ filter_field' = <<>>
    /\ filter_string' = <<>>
    /\ emitted' = set_filter_string(<<>>)
    /\ call' = [op |-> "handle_clear_people_filter"]
    /\ ret' = Returned(PyNone)
    /\ UNCHANGED << moodVars, editor, people, word_pairs, alternate_word_pairs,
                    current_word_pairs, word_model_data, edits, presses >>

\* -------------------------------------------------------- WordPairModel

\* The dict a reference refers to.
Deref(ref) == IF ref = "word_pairs" THEN word_pairs ELSE alternate_word_pairs

\* rowCount of a model that kept the dict it was constructed with.
wordRowCount_of_first_dict == Len(word_pairs)

\* WordPairModel.rowCount
wordRowCount == Len(Deref(word_model_data))

\* WordPairModel.columnCount
wordColumnCount == 2

\* WordPairModel.data
wordData(index, role) ==
    IF index.valid /\ role = "DisplayRole"
    THEN PyStr(Deref(word_model_data)[index.row + 1][index.col + 1])
    ELSE PyNone

\* The indexes a view asks the word pairs model about.
WordIndexes == ValidIndexes(wordRowCount, wordColumnCount) \cup {InvalidIndex}

\* The view queries WordPairModel.data.
WordData(index, role) ==
    /\ call' = [op |-> "WordPairModel.data", index |-> index, role |-> role]
    /\ ret' = Returned(wordData(index, role))
    /\ emitted' = <<>>
    /\ UNCHANGED << tableVars, editor, moodVars >>

\* WordPairModel.headerData
wordHeaderData(section, orientation, role) ==
    IF role = "DisplayRole"
    THEN IF orientation = "Vertical"
         THEN Returned(PyStr(IntToStr(section)))
         ELSE IF section = 0 THEN Returned(PyStr(<<"F", "i", "r", "s", "t", " ", "W", "o", "r", "d">>))
         ELSE IF section = 1 THEN Returned(PyStr(<<"S", "e", "c", "o", "n", "d", " ", "W", "o", "r", "d">>))
         ELSE Returned(PyNone)
    ELSE Returned(PyNone)

\* The view queries WordPairModel.headerData.
WordHeaderData(section, orientation, role) ==
    /\ call' = [op |-> "WordPairModel.headerData", section |-> section,
                orientation |-> orientation, role |-> role]
    /\ ret' = wordHeaderData(section, orientation, role)
    /\ emitted' = <<>>
    /\ UNCHANGED << tableVars, editor, moodVars >>

\* WordPairModel.set_new_pair_data: what it does, in order.
set_new_pair_data(user_data) ==
    << [sig |-> "model_data", value |-> user_data],
       [sig |-> "beginResetModel"],
       [sig |-> "endResetModel"] >>

\* handle_swap_words that never records which dict is shown.
handle_swap_words_unrecorded ==
    /\ presses < MaxPresses
    /\ IF current_word_pairs = "word_pairs"
       THEN /\ current_word_pairs' = current_word_pairs
            /\ word_model_data' = "alternate_word_pairs"
            /\ emitted' = set_new_pair_data("alternate_word_pairs")
       ELSE /\ current_word_pairs' = "word_pairs"
            /\ word_model_data' = "word_pairs"
            /\ emitted' = set_new_pair_data("word_pairs")
    /\ presses' = presses + 1
    /\ call' = [op |-> "handle_swap_words"]
    /\ ret' = Returned(PyNone)
    /\ UNCHANGED << moodVars, editor, people, filter_field, filter_string, word_pairs,
                    alternate_word_pairs, edits >>

\* CustomWidget.handle_swap_words ('Show Other Words')
handle_swap_words ==
    /\ presses < MaxPresses
    /\ IF current_word_pairs = "word_pairs"
       THEN /\ current_word_pairs' = "alternate_word_pairs"
            /\ word_model_data' = "alternate_word_pairs"
            /\ emitted' = set_new_pair_data("alternate_word_pairs")
       ELSE /\ current_word_pairs' = "word_pairs"
            /\ word_model_data' = "word_pairs"
            /\ emitted' = set_new_pair_data("word_pairs")
    /\ presses' = presses + 1
    /\ call' = [op |-> "handle_swap_words"]
    /\ ret' = Returned(PyNone)
    /\ UNCHANGED << moodVars, editor, people, filter_field, filter_string, word_pairs,
                    alternate_word_pairs, edits >>

\* ------------------------------------------------------ BackendObject

HexDigits ==
    << "0", "1", "2", "3", "4", "5", "6", "7", "8", "9", "a", "b", "c", "d", "e", "f" >>

\* bytes.hex(): two lower case hexadecimal digits for each byte, in order.
RECURSIVE Hex(_)
Hex(bytes) ==
    IF bytes = <<>> THEN <<>>
    ELSE << HexDigits[(Head(bytes) \div 16) + 1], HexDigits[(Head(bytes) % 16) + 1] >>
             \o Hex(Tail(bytes))

\* s[:n]
Slice(s, n) == SubSeq(s, 1, IF Len(s) < n THEN Len(s) ELSE n)

\* s[n:]
SliceFrom(s, n) == SubSeq(s, n + 1, Len(s))

\* The literal 'file:///'.
FileUrlPrefix == <<"f", "i", "l", "e", ":", "/", "/", "/">>

\* The directory the files of the model are in.
Dir == <<"t", "m", "p", "/">>

\* The bytes of the model's files: a file of n bytes whose i-th byte is
\* seed * i modulo 256.
Seeds == {0, 37, 255}

Content(n, seed) == [i \in 1..n |-> (seed * i) % 256]

\* The file system pronk runs on: regular files of every length up to
\* MaxFileLen under a relative directory, a directory (open raises
\* IsADirectoryError), a file the process may not read (open raises
\* PermissionError), a file on a failing device (read raises OSError) and a file
\* with an absolute path.
FileSystem ==
    { [path |-> Dir \o IntToStr(n) \o <<"_">> \o IntToStr(seed), kind |-> "file",
       content |-> Content(n, seed)] : n \in 0..MaxFileLen, seed \in Seeds }
    \cup { [path |-> Dir \o <<"d", "i", "r">>, kind |-> "IsADirectoryError",
            content |-> <<>>],
           [path |-> Dir \o <<"s", "e", "c", "r", "e", "t">>, kind |-> "PermissionError",
            content |-> <<>>],
           [path |-> Dir \o <<"b", "a", "d">>, kind |-> "OSError", content |-> <<>>],
           [path |-> <<"/">> \o Dir \o <<"a", "b", "s">>, kind |-> "file",
            content |-> <<171, 205>>] }

\* The paths pronk is called with: each file's path, bare and as a file URL, a
\* path that does not exist, the usual URL of the absolute file (three slashes)
\* and a URL with the prefix twice.
PronkPaths ==
    LET bare == { f.path : f \in FileSystem } \cup { Dir \o <<"n", "o", "n", "e">> }
    IN  bare \cup { FileUrlPrefix \o path : path \in bare }
             \cup { FileUrlPrefix \o Dir \o <<"a", "b", "s">>,
                    FileUrlPrefix \o FileUrlPrefix \o Dir \o <<"1", "_", "0">> }

\* os.path.exists(path)
exists(path) == \E f \in FileSystem : f.path = path

\* The file a path names.
FileAt(path) == CHOOSE f \in FileSystem : f.path = path

\* A line printed to the console.
Printed(msg) == [sig |-> "print", msg |-> msg]

\* pronk cutting the hex text at 32 characters.
pronk_first_32(received) ==
    LET path == IF StartsWith(received, FileUrlPrefix)
                THEN SliceFrom(received, Len(FileUrlPrefix))
                ELSE received
    IN  IF exists(path) /\ FileAt(path).kind = "file"
        THEN [ret |-> Returned(PyStr(Slice(Hex(FileAt(path).content), 32))),
              emitted |-> << Printed("Received") >>]
        ELSE [ret |-> Returned(PyStr(<<>>)), emitted |-> << Printed("Received") >>]

\* os.path.exists(path) has been called.
ExistsCalled(path) == [sig |-> "os.path.exists", path |-> path]

\* open(path, 'rb') has been called.
OpenCalled(path) == [sig |-> "open", path |-> path]

\* pronk cutting 'file://' off and leaving the third slash.
pronk_keeps_slash(received) ==
    LET path == IF StartsWith(received, FileUrlPrefix)
                THEN SliceFrom(received, Len(FileUrlPrefix) - 1)
                ELSE received
    IN  IF exists(path) /\ FileAt(path).kind = "file"
        THEN [ret |-> Returned(PyStr(Slice(Hex(FileAt(path).content), 64))),
              emitted |-> << Printed("Received"), ExistsCalled(path), OpenCalled(path) >>]
        ELSE [ret |-> Returned(PyStr(<<>>)),
              emitted |-> << Printed("Received"), ExistsCalled(path) >>]

\* BackendObject.pronk: what it returns, and what it prints and calls, in
\* order. The except clause has no return statement, so after a failed open or
\* read the function falls off its end and returns None.
pronk(received) ==
    LET path == IF StartsWith(received, FileUrlPrefix)
                THEN SliceFrom(received, Len(FileUrlPrefix))
                ELSE received
        received_msg == << Printed("Received"), ExistsCalled(path) >>
    IN  IF exists(path)
        THEN LET f == FileAt(path)
             IN  IF f.kind = "file"
                 THEN [ret |-> Returned(PyStr(Slice(Hex(f.content), 64))),
                       emitted |-> IF f.content = <<>>
                                   THEN received_msg \o << OpenCalled(path),
                                                           Printed("File was empty") >>
                                   ELSE received_msg \o << OpenCalled(path) >>]
                 ELSE [ret |-> Returned(PyNone),
                       emitted |-> received_msg
                                     \o << OpenCalled(path),
                                           [sig |-> "traceback.print_exc", exc |-> f.kind],
                                           Printed("Couldn't read the specified file") >>]
        ELSE [ret |-> Returned(PyStr(<<>>)),
              emitted |-> received_msg \o << Printed("File does not appear to exist") >>]

\* QML calls BackendObject.pronk.
Pronk(path) ==
    /\ call' = [op |-> "pronk", path |-> path]
    /\ ret' = pronk(path).ret
    /\ emitted' = pronk(path).emitted
    /\ UNCHANGED << tableVars, editor, moodVars >>

\* ---------------------------------------------------------- signals demo

\* The text ChildWidget.__init__ puts in the child's text box.
EmptyText == <<"E", "M", "P", "T", "Y">>

\* The moods handle_child_mood emits.
HAPPY == <<"H", "A", "P", "P", "Y">>

CONFUSED == <<"C", "O", "N", "F", "U", "S", "E", "D">>

\* The buttons connected to handle_child_mood.
MoodButtons == {"child_happy_btn", "child_confused_btn"}

\* How many random letters handle_incoming_mood draws.
NumRandomLetters == 4

\* The draws random.choices can make from the letters the model keeps.
RandomChoices == [1..NumRandomLetters -> { UpperChars[i] : i \in 1..MaxLetters }]

\* The message of handle_incoming_mood:
\* 'This window is {}\n\nRandom letters: {}'.format(mood, ''.join(letters))
MoodMessage(mood, some_rand_letters) ==
    <<"T", "h", "i", "s", " ", "w", "i", "n", "d", "o", "w", " ", "i", "s", " ">> \o mood
        \o <<"\n", "\n", "R", "a", "n", "d", "o", "m", " ", "l", "e", "t", "t", "e", "r", "s", ":", " ">> \o some_rand_letters

\* ChildWidget.handle_incoming_mood, the slot connected to mood_change: what it
\* does, in order.
handle_incoming_mood(mood, some_rand_letters) ==
    << [sig |-> "handle_incoming_mood", mood |-> mood],
       [sig |-> "setPlainText", text |-> MoodMessage(mood, some_rand_letters)] >>

\* self.mood_change.emit(mood): the signal, and then the slot connected to it,
\* which runs before emit returns.
mood_change_emit(mood, some_rand_letters) ==
    << [sig |-> "mood_change", mood |-> mood] >>
        \o handle_incoming_mood(mood, some_rand_letters)

\* CustomWidget.handle_show_child ('Show child')
handle_show_child ==
    /\ child_visible' = TRUE
    /\ call' = [op |-> "handle_show_child"]
    /\ ret' = Returned(PyNone)
    /\ emitted' = <<>>
    /\ UNCHANGED << tableVars, editor, child_text, mood_sender >>

\* handle_child_mood emitting only while the child window is shown.
handle_child_mood_when_shown(sender, some_rand_letters) ==
    /\ emitted' = IF child_visible
                  THEN mood_change_emit(IF sender = "child_happy_btn" THEN HAPPY ELSE CONFUSED,
                                        some_rand_letters)
                  ELSE <<>>
    /\ child_text' = IF emitted' = <<>> THEN child_text ELSE emitted'[Len(emitted')].text
    /\ mood_sender' = sender
    /\ call' = [op |-> "handle_child_mood", sender |-> sender]
    /\ ret' = Returned(PyNone)
    /\ UNCHANGED << tableVars, editor, child_visible >>

\* CustomWidget.handle_child_mood, the slot of 'Make child happy' and of 'Make
\* child confused'; sender is what self.sender() gives. The two tests of the
\* sender run one after the other, the text box keeps the last text set.
handle_child_mood(sender, some_rand_letters) ==
    /\ emitted' = (IF sender = "child_happy_btn"
                   THEN mood_change_emit(HAPPY, some_rand_letters)
                   ELSE <<>>)
                    \o (IF sender = "child_confused_btn"
                        THEN mood_change_emit(CONFUSED, some_rand_letters)
                        ELSE <<>>)
    /\ child_text' = IF emitted' = <<>> THEN child_text ELSE emitted'[Len(emitted')].text
    /\ mood_sender' = sender
    /\ call' = [op |-> "handle_child_mood", sender |-> sender]
    /\ ret' = Returned(PyNone)
    /\ UNCHANGED << tableVars, editor, child_visible >>

\* ------------------------------------------------------- specification

\* The state after the two CustomWidget.__init__ have run.
Init ==
    /\ people = SubSeq(AllPeople, 1, NumPeople)
    /\ filter_field = <<>>
    /\ filter_string = <<>>
    /\ word_pairs = InitWordPairs
    /\ alternate_word_pairs = InitAlternateWordPairs
    /\ current_word_pairs = "word_pairs"
    /\ word_model_data = "word_pairs"
    /\ edits = 0
    /\ presses = 0
    /\ call = [op |-> "__init__"]
    /\ ret = Returned(PyNone)
    /\ emitted = <<>>
    /\ editor = NoEditor
    /\ child_text = EmptyText
    /\ child_visible = FALSE
    /\ mood_sender = "none"

\* The indexes setData is called with: every cell, and the invalid index.
SetDataIndexes == ValidIndexes(rowCount, columnCount) \cup {InvalidIndex}

\* The people table on its own (app_table_people.py): setData as any caller may
\* call it, and the filter.
NextPeople ==
    \/ \E index \in SetDataIndexes, value \in EditValues, role \in Roles :
           SetData(index, value, role)
    \/ \E text \in FilterTexts : TypeFilterText(text)
    \/ handle_apply_people_filter
    \/ handle_clear_people_filter

SpecPeople == Init /\ [][NextPeople]_vars

\* Cell edits through the delegate alone: what the sort order depends on.
NextEdits ==
    \E index \in ValidIndexes(rowCount, columnCount),
       text \in EditValues \cup SortValues :
        setModelData(text, index)

SpecEdits == Init /\ [][NextEdits]_vars

\* The word pairs table on its own (app_table_word_pairs.py).
NextWords ==
    \/ handle_swap_words
    \/ \E index \in WordIndexes, role \in QueryRoles : WordData(index, role)

SpecWords == Init /\ [][NextWords]_vars

\* The header queries of the two models.
Orientations == {"Horizontal", "Vertical"}

NextHeader ==
    \/ \E section \in 0..MaxSection, orientation \in Orientations, role \in QueryRoles :
           PeopleHeaderData(section, orientation, role)
    \/ \E section \in 0..MaxSection, orientation \in Orientations, role \in QueryRoles :
           WordHeaderData(section, orientation, role)

SpecHeader == Init /\ [][NextHeader]_vars

\* Editing one cell after another through PeopleFieldEditor.
NextEditor ==
    \/ \E index \in ValidIndexes(rowCount, columnCount) : createEditor(index)
    \/ \E key \in KeyPresses : keyPressEvent(key)
    \/ closeEditor

SpecEditor == Init /\ [][NextEditor]_vars

\* The QML backend (app_qml/app_qml_simple.py).
NextPronk == \E path \in PronkPaths : Pronk(path)

SpecPronk == Init /\ [][NextPronk]_vars

\* The signals demo: the three buttons that deal with the child window.
NextMood ==
    \/ handle_show_child
    \/ \E sender \in MoodButtons, some_rand_letters \in RandomChoices :
           handle_child_mood(sender, some_rand_letters)

SpecMood == Init /\ [][NextMood]_vars

\* Both tables, driven through their widgets: cell edits through the delegate,
\* the filter buttons and the swap button.
Next ==
    \/ \E index \in ValidIndexes(rowCount, columnCount), text \in EditValues :
           setModelData(text, index)
    \/ \E text \in FilterTexts : TypeFilterText(text)
    \/ handle_apply_people_filter
    \/ handle_clear_people_filter
    \/ handle_swap_words

Spec == Init /\ [][Next]_vars

\* ------------------------------------------------------------ properties

\* A text made up entirely of decimal digits (and not empty).
AllDigits(s) == s # <<>> /\ \A i \in 1..Len(s) : IsDigit(s[i])

\* The attribute a column shows.
AttribOf(col) == attrib_key[col + 1].attrib

AttribNames == {"first", "middle", "last", "age", "height_mm"}

\* The last handler was setData on a cell of the Age or Height column, with the
\* display role.
NumericEdit(c) ==
    /\ c.op = "setData"
    /\ c.index.valid
    /\ c.role = "DisplayRole"
    /\ c.index.col \in {AGE, HEIGHT_MM}

\* C1: setData on an Age or Height cell with the display role rejects every value
\* whose stripped text is not all decimal digits: it returns False, raises
\* nothing, emits no dataChanged and leaves the people list as it was.
C1_RejectsNonDigits ==
    [][ (NumericEdit(call') /\ ~AllDigits(Strip(call'.value)))
            => /\ ret' = Returned(PyBool(FALSE))
               /\ emitted' = <<>>
               /\ people' = people ]_vars

\* s starts with prefix when letter case is ignored, said position by position.
PrefixIgnoringCase(prefix, s) ==
    /\ Len(prefix) <= Len(s)
    /\ \A i \in 1..Len(prefix) : LowerChar(prefix[i]) = LowerChar(s[i])

\* C4: right after 'Filter People' is pressed with a non-empty field text T, a
\* source row is accepted exactly when its first name starts with T, letter case
\* ignored on both sides; and every column is accepted.
C4_FilterIsPrefixIgnoringCase ==
    (call.op = "handle_apply_people_filter" /\ call.text # <<>>)
        => /\ \A row \in 0..(rowCount - 1) :
                  filterAcceptsRow(row) <=>
                      PrefixIgnoringCase(call.text, people[row + 1].first.v)
           /\ \A col \in 0..(columnCount - 1) : filterAcceptsColumn(col)

\* C4's case: a filter typed in mixed case that accepts one row and rejects another.
C4_Witness ==
    /\ call.op = "handle_apply_people_filter"
    /\ call.text = <<"a", "L">>
    /\ \E row \in 0..(rowCount - 1) : filterAcceptsRow(row)
    /\ \E row \in 0..(rowCount - 1) : ~filterAcceptsRow(row)

\* a comes before b in lexical order: they agree up to some position, where a
\* ends and b goes on, or where a's character has the smaller code point.
LexicallyBefore(a, b) ==
    \E k \in 1..(Len(b)) :
        /\ k <= Len(a) + 1
        /\ \A i \in 1..(k - 1) : a[i] = b[i]
        /\ (k = Len(a) + 1 \/ Ord(a[k]) < Ord(b[k]))

\* The text a cell displays.
DisplayText(index) == Str(people[index.row + 1][AttribOf(index.col)])

\* C5: lessThan orders two cells of any column (the view sorts by one column, so
\* the two cells are of the same column) by the lexical order of their display
\* texts, and no cell is less than itself.
C5_LessThanIsLexical ==
    \A l, r \in ValidIndexes(rowCount, columnCount) :
        (l.col = r.col)
            => /\ lessThan(l, r) <=> LexicallyBefore(DisplayText(l), DisplayText(r))
               /\ ~lessThan(l, l)

\* C5's case: two ages of which the smaller number is not the lesser cell.
C5_Witness ==
    \E l, r \in ValidIndexes(rowCount, columnCount) :
        /\ l.col = AGE /\ r.col = AGE
        /\ people[l.row + 1].age.v < people[r.row + 1].age.v
        /\ ~lessThan(l, r)
        /\ lessThan(r, l)

\* The keys of a dict held as a sequence of pairs.
DictKeys(pairs) == { pairs[i][1] : i \in 1..Len(pairs) }

\* C6: the people model has as many rows as the people list has records and 5
\* columns; the word pairs model has as many rows as the dict the widget shows
\* has entries and 2 columns.
C6_CountsMatchData ==
    /\ rowCount = Len(people)
    /\ rowCount = NumPeople
    /\ columnCount = 5
    /\ wordRowCount = Cardinality(DictKeys(Deref(current_word_pairs)))
    /\ wordColumnCount = 2

\* C6's case: after cell edits, a filter and a swap.
C6_Witness ==
    /\ edits = MaxEdits
    /\ people # SubSeq(AllPeople, 1, NumPeople)
    /\ filter_string # <<>>
    /\ current_word_pairs = "alternate_word_pairs"
    /\ wordRowCount = 6

\* C8: after n presses of 'Show Other Words' the model holds the original dict
\* of 8 entries when n is even and the alternate dict of 6 entries when n is
\* odd; the widget and the model refer to the same dict; and neither dict's
\* contents change.
C8_SwapAlternates ==
    /\ current_word_pairs = word_model_data
    /\ word_pairs = InitWordPairs
    /\ alternate_word_pairs = InitAlternateWordPairs
    /\ (presses % 2 = 0) =>
           (word_model_data = "word_pairs" /\ Len(Deref(word_model_data)) = 8)
    /\ (presses % 2 = 1) =>
           (word_model_data = "alternate_word_pairs" /\ Len(Deref(word_model_data)) = 6)

\* C8's case: the table has been swapped and swapped back.
C8_Witness ==
    /\ presses = 2
    /\ call.op = "handle_swap_words"
    /\ word_model_data = "word_pairs"

\* C9: a setData that returns True changes at most the attribute of column c of
\* the r-th record, for the cell (r, c) it was called on; every other attribute
\* and record, and the list's length and order, stay; any other setData changes
\* nothing.
C9_SetDataFrame ==
    [][ (call'.op = "setData")
            => IF ret' = Returned(PyBool(TRUE))
               THEN /\ call'.index.valid
                    /\ Len(people') = Len(people)
                    /\ \A r \in 1..Len(people), a \in AttribNames :
                           (r # call'.index.row + 1 \/ a # AttribOf(call'.index.col))
                               => people'[r][a] = people[r][a]
               ELSE people' = people ]_vars

\* C9's case: a successful edit of a cell of the second record.
C9_Witness ==
    /\ call.op = "setData"
    /\ ret = Returned(PyBool(TRUE))
    /\ call.index.row = 1
    /\ people[2] # AllPeople[2]
    /\ people[1] = AllPeople[1]

\* The column names of the people table, as the claim lists them.
PeopleLabels ==
    << <<"F", "i", "r", "s", "t", " ", "N", "a", "m", "e">>,
       <<"M", "i", "d", "d", "l", "e", " ", "N", "a", "m", "e">>,
       <<"L", "a", "s", "t", " ", "N", "a", "m", "e">>,
       <<"A", "g", "e">>,
       <<"H", "e", "i", "g", "h", "t", " ", "(", "m", "m", ")">> >>

\* The column names of the word pairs table, as the claim lists them.
WordLabels ==
    << <<"F", "i", "r", "s", "t", " ", "W", "o", "r", "d">>,
       <<"S", "e", "c", "o", "n", "d", " ", "W", "o", "r", "d">> >>

\* s is the decimal numeral of n: digits only, no leading zero, of value n.
IsDecimalOf(s, n) ==
    /\ AllDigits(s)
    /\ Len(s) > 1 => s[1] # "0"
    /\ IntOf(s) = n

\* What the claim says a header query returns, given the horizontal labels.
HeaderAsClaimed(labels) ==
    /\ ret.raised = "none"
    /\ IF call.role # "DisplayRole"
       THEN ret.value = PyNone
       ELSE IF call.orientation = "Vertical"
            THEN ret.value.t = "str" /\ IsDecimalOf(ret.value.v, call.section)
            ELSE ret.value = PyStr(labels[call.section + 1])

\* C7: for the display role headerData returns the fixed column names for the
\* horizontal sections (0..4 of the people model, 0 and 1 of the word pairs
\* model) and the decimal numeral of n for every vertical section n; for every
\* other role it returns no value.
C7_HeaderLabels ==
    /\ (/\ call.op = "PeopleModel.headerData"
        /\ (call.role = "DisplayRole" /\ call.orientation = "Horizontal")
               => call.section \in 0..4)
           => HeaderAsClaimed(PeopleLabels)
    /\ (/\ call.op = "WordPairModel.headerData"
        /\ (call.role = "DisplayRole" /\ call.orientation = "Horizontal")
               => call.section \in 0..1)
           => HeaderAsClaimed(WordLabels)

\* C7's case: the label of the last column of the people table has been asked
\* for.
C7_Witness ==
    /\ call.op = "PeopleModel.headerData"
    /\ call.role = "DisplayRole"
    /\ call.orientation = "Horizontal"
    /\ call.section = 4
    /\ ret.value.t = "str"

\* The keys the claim says a numeric editor forwards.
ForwardedKeysAsClaimed ==
    { "Key_0", "Key_1", "Key_2", "Key_3", "Key_4", "Key_5", "Key_6", "Key_7", "Key_8",
      "Key_9", "Key_Return", "Key_Enter", "Key_Tab", "Key_Delete", "Key_Backspace" }

\* C10: an editor of the Age or Height column forwards a key press to the line
\* edit exactly when the key is a digit, Return, Enter, Tab, Delete or
\* Backspace, and any other key leaves the editor as it was; so its text, digits
\* only before the key press, holds only digits after it. An editor of a name
\* column forwards every key press.
C10_NumericEditorKeys ==
    [][ (call'.op = "keyPressEvent")
            => IF editor.column \in {AGE, HEIGHT_MM}
               THEN /\ (emitted' # <<>>) <=> (call'.key.key \in ForwardedKeysAsClaimed)
                    /\ (call'.key.key \notin ForwardedKeysAsClaimed) => editor' = editor
                    /\ (\A i \in 1..Len(editor.text) : IsDigit(editor.text[i]))
                           => (\A i \in 1..Len(editor'.text) : IsDigit(editor'.text[i]))
               ELSE emitted' = << [sig |-> "super.keyPressEvent", key |-> call'.key.key] >>
      ]_vars

\* C10's case: a letter key pressed in an Age editor whose text was typed in.
C10_Witness ==
    /\ editor.open
    /\ editor.column = AGE
    /\ call.op = "keyPressEvent"
    /\ call.key.key = "Key_A"
    /\ emitted = <<>>
    /\ editor.text = <<"9", "0">>

\* The file the path given to pronk names, bare or as a file URL.
NamedBy(path) == { f \in FileSystem : path = f.path \/ path = FileUrlPrefix \o f.path }

\* C2: given a path that exists but whose open or read raises an error, pronk
\* catches the error, logs it and returns the empty string; and no exception
\* leaves pronk, whatever the path.
C2_ReadErrorGivesEmptyString ==
    (call.op = "pronk")
        => /\ ret.raised = "none"
           /\ \A f \in NamedBy(call.path) :
                  (f.kind # "file")
                      => /\ ret.value = PyStr(<<>>)
                         /\ \E i \in 1..Len(emitted) : emitted[i].sig = "traceback.print_exc"

\* C3: given a path to a readable file of n bytes, pronk returns a text of
\* min(64, 2n) characters whose characters 2i-1 and 2i are the high and the low
\* lower case hexadecimal digit of the file's i-th byte: the first 32 bytes at
\* most, and the whole file when it has fewer than 32.
C3_FirstHexCharacters ==
    (call.op = "pronk")
        => \A f \in NamedBy(call.path) :
               (f.kind = "file")
                   => LET n == Len(f.content)
                          text == ret.value.v
                      IN  /\ ret.raised = "none"
                          /\ ret.value.t = "str"
                          /\ Len(text) = (IF 2 * n < 64 THEN 2 * n ELSE 64)
                          /\ Len(text) <= 2 * 32
                          /\ n < 32 => Len(text) = 2 * n
                          /\ \A i \in 1..(Len(text) \div 2) :
                                 /\ text[2 * i - 1] = HexDigits[(f.content[i] \div 16) + 1]
                                 /\ text[2 * i] = HexDigits[(f.content[i] % 16) + 1]

\* C3's case: a file of more than 32 bytes, read through a file URL and cut to
\* 64 characters.
C3_Witness ==
    /\ call.op = "pronk"
    /\ StartsWith(call.path, FileUrlPrefix)
    /\ \E f \in NamedBy(call.path) : f.kind = "file" /\ Len(f.content) > 32
    /\ ret.value.t = "str"
    /\ Len(ret.value.v) = 64

\* A text with no white space at either end.
IsStripped(s) == s = <<>> \/ (~IsSpace(s[1]) /\ ~IsSpace(s[Len(s)]))

\* C11: after any cell edits, accepted or rejected, every person's age and
\* height_mm is an integer that is not negative, and every name is a string with
\* no white space at either end.
C11_FieldTypes ==
    \A r \in 1..Len(people) :
        /\ \A a \in {"age", "height_mm"} :
               people[r][a].t = "int" /\ people[r][a].v \in Nat
        /\ \A a \in {"first", "middle", "last"} :
               people[r][a].t = "str" /\ IsStripped(people[r][a].v)

\* C11's case: an age typed with white space around it and a leading zero has
\* been accepted.
C11_Witness ==
    /\ call.op = "setData"
    /\ call.index.col = AGE
    /\ call.value = <<" ", "0", "7", " ">>
    /\ ret = Returned(PyBool(TRUE))
    /\ people[call.index.row + 1].age = PyInt(7)

\* The events of the last handler that carry the signal or call sig.
Events(sig) == { i \in 1..Len(emitted) : emitted[i].sig = sig }

\* The path the last pronk looked up.
LookedUp == emitted[CHOOSE i \in Events("os.path.exists") : TRUE].path

\* C13: pronk returns a string on every path through it: the empty string when
\* the path does not exist (and then nothing is opened), the empty string when
\* the file exists and is empty, a hex text that is not empty otherwise; never
\* None.
C13_AlwaysAString ==
    (call.op = "pronk")
        => /\ ret.raised = "none"
           /\ ret.value.t = "str"
           /\ IF ~exists(LookedUp)
              THEN ret.value.v = <<>> /\ Events("open") = {}
              ELSE IF FileAt(LookedUp).kind = "file" /\ FileAt(LookedUp).content = <<>>
              THEN ret.value.v = <<>>
              ELSE ret.value.v # <<>>

\* The literal the claim names, and its length.
FileUrlLiteral == <<"f", "i", "l", "e", ":", "/", "/", "/">>

\* What the claim says pronk looks up for the path it receives: the path less
\* its first 8 characters when these are 'file:///', and the path itself
\* otherwise.
LookedUpAsClaimed(received) ==
    IF Len(received) >= 8 /\ \A i \in 1..8 : received[i] = FileUrlLiteral[i]
    THEN [i \in 1..(Len(received) - 8) |-> received[i + 8]]
    ELSE received

\* C14: pronk takes one leading 'file:///' off the path it receives, when there
\* is one, and uses the path as it is otherwise; the existence check and the
\* open both use that path.
C14_OnePrefixRemoved ==
    (call.op = "pronk")
        => /\ Cardinality(Events("os.path.exists")) = 1
           /\ \A i \in Events("os.path.exists") \cup Events("open") :
                  emitted[i].path = LookedUpAsClaimed(call.path)

\* C14's case: the URL file:///tmp/abs of the file /tmp/abs is looked up as
\* tmp/abs, which does not exist.
C14_Witness ==
    /\ call.op = "pronk"
    /\ call.path = FileUrlLiteral \o <<"t", "m", "p", "/", "a", "b", "s">>
    /\ LookedUp = <<"t", "m", "p", "/", "a", "b", "s">>
    /\ exists(<<"/">> \o LookedUp)
    /\ ~exists(LookedUp)
    /\ ret = Returned(PyStr(<<>>))

\* The source rows the proxy accepts.
AcceptedRows == { r \in 0..(rowCount - 1) : filterAcceptsRow(r) }

\* All source rows.
AllRows == 0..(Len(people) - 1)

\* C15: with an empty filter string every source row is accepted; 'Clear
\* Filter', pressed in any state, empties the filter field and the filter
\* string, so that every person record is accepted again; 'Filter People' with
\* an empty field empties the filter string.
C15_ClearRestoresAllRows ==
    [][ /\ (filter_string' = <<>>) => (AcceptedRows' = AllRows')
        /\ (call'.op = "handle_clear_people_filter")
               => /\ filter_field' = <<>>
                  /\ filter_string' = <<>>
                  /\ AcceptedRows' = AllRows'
        /\ (call'.op = "handle_apply_people_filter" /\ filter_field = <<>>)
               => filter_string' = <<>> ]_vars

\* C15's case: 'Clear Filter' has been pressed and a record that the filter
\* 'al' rejects is accepted.
C15_Witness ==
    /\ call.op = "handle_clear_people_filter"
    /\ filter_field = <<>>
    /\ \E r \in AcceptedRows :
           ~StartsWith(Lower(data(Index(r, FIRST_NAME), "DisplayRole").v), <<"a", "l">>)

\* C16: setData with an invalid index, or with a role other than the display
\* role (the edit role included), returns False, changes no person record and
\* emits no dataChanged, whatever the value.
C16_OnlyValidDisplayEdits ==
    [][ (call'.op = "setData" /\ (~call'.index.valid \/ call'.role # "DisplayRole"))
            => /\ ret' = Returned(PyBool(FALSE))
               /\ people' = people
               /\ { i \in 1..Len(emitted') : emitted'[i].sig = "dataChanged" } = {} ]_vars

\* C16's case: a valid cell is set to '9' with the edit role, and setData
\* returns False.
C16_Witness ==
    /\ call.op = "setData"
    /\ call.index.valid
    /\ call.role = "EditRole"
    /\ call.value = <<"9">>
    /\ ret = Returned(PyBool(FALSE))

\* C17: setData emits dataChanged once, for the edited index alone and the
\* display role, after the record has been updated, exactly when it returns
\* True; a call that does not return True emits nothing.
C17_DataChangedOnceAfterUpdate ==
    (call.op = "setData")
        => IF ret = Returned(PyBool(TRUE))
           THEN /\ Cardinality(Events("dataChanged")) = 1
                /\ \A i \in Events("dataChanged") :
                       /\ emitted[i].topLeft = call.index
                       /\ emitted[i].bottomRight = call.index
                       /\ emitted[i].roles = <<"DisplayRole">>
                       /\ \E j \in Events("setattr") :
                              /\ j < i
                              /\ emitted[j].row = call.index.row
                              /\ emitted[j].attrib = AttribOf(call.index.col)
                              /\ emitted[j].value
                                     = people[call.index.row + 1][AttribOf(call.index.col)]
                       /\ \A j \in Events("setattr") : j < i
           ELSE emitted = <<>>

\* C17's case: an edit of a name has returned True and has emitted dataChanged.
C17_Witness ==
    /\ call.op = "setData"
    /\ call.index.col = FIRST_NAME
    /\ ret = Returned(PyBool(TRUE))
    /\ Events("dataChanged") # {}

\* C18: after a setData with the display role that returned True, data with the
\* display role gives, for the same index, the stripped value in a name column
\* and the decimal text, without leading zeros, of the stripped value's integer
\* in the Age and Height columns; data gives nothing for another role or for an
\* invalid index.
C18_EditReadRoundTrip ==
    /\ (call.op = "setData" /\ ret = Returned(PyBool(TRUE)))
           => LET shown == data(call.index, "DisplayRole")
                  stripped == Strip(call.value)
              IN  /\ shown.t = "str"
                  /\ IF call.index.col \in {AGE, HEIGHT_MM}
                     THEN IsDecimalOf(shown.v, IntOf(stripped))
                     ELSE shown.v = stripped
    /\ \A index \in SetDataIndexes, role \in Roles \cup QueryRoles :
           (~index.valid \/ role # "DisplayRole") => data(index, role) = PyNone

\* C18's case: an age is set to ' 07 ' and reads back as '7'.
C18_Witness ==
    /\ call.op = "setData"
    /\ call.index.col = AGE
    /\ call.value = <<" ", "0", "7", " ">>
    /\ ret = Returned(PyBool(TRUE))
    /\ data(call.index, "DisplayRole") = PyStr(<<"7">>)

\* The one place of the signal or call sig among the last handler's events, and
\* 0 when it is not there once.
PlaceOf(sig) == IF Cardinality(Events(sig)) = 1 THEN CHOOSE i \in Events(sig) : TRUE ELSE 0

\* C19: set_new_pair_data and set_filter_string each signal beginResetModel
\* once and then endResetModel once, and the new mapping or filter string is
\* put in place between the two.
C19_ResetProtocol ==
    (call.op \in {"handle_swap_words", "handle_apply_people_filter",
                  "handle_clear_people_filter"})
        => LET begin == PlaceOf("beginResetModel")
               end == PlaceOf("endResetModel")
               assigned == IF call.op = "handle_swap_words"
                           THEN PlaceOf("model_data")
                           ELSE PlaceOf("filter_string")
           IN  /\ begin > 0
               /\ begin < end
               /\ begin < assigned
               /\ assigned < end

\* The mood the claim gives each button.
MoodOf(button) == IF button = "child_happy_btn" THEN HAPPY ELSE CONFUSED

\* C20: a press of 'Make child happy' or 'Make child confused' emits
\* mood_change once, with 'HAPPY' or 'CONFUSED', and the child's slot runs once
\* for it, whether or not the child window is shown; the child's text is
\* 'EMPTY' before the first press and begins with 'This window is ' and the
\* mood of the last press after it.
C20_MoodReachesChild ==
    /\ (call.op = "handle_child_mood")
           => /\ Cardinality(Events("mood_change")) = 1
              /\ \A i \in Events("mood_change") : emitted[i].mood = MoodOf(call.sender)
              /\ Cardinality(Events("handle_incoming_mood")) = 1
              /\ call.sender = mood_sender
    /\ IF mood_sender = "none"
       THEN child_text = <<"E", "M", "P", "T", "Y">>
       ELSE StartsWith(child_text,
                       <<"T", "h", "i", "s", " ", "w", "i", "n", "d", "o", "w", " ", "i", "s", " ">>
                           \o MoodOf(mood_sender))

\* C20's case: 'Make child confused' is pressed while the child window has
\* never been shown; the slot has run and the text tells CONFUSED.
C20_Witness ==
    /\ call = [op |-> "handle_child_mood", sender |-> "child_confused_btn"]
    /\ ~child_visible
    /\ Events("handle_incoming_mood") # {}
    /\ StartsWith(child_text, MoodMessage(CONFUSED, <<>>))

====
